---- MODULE Spec2Model ----
(***************************************************************************)
(* Model of src/librustdoc/passes.rs: the rustdoc passes strip_hidden,     *)
(* strip_private, collapse_docs and the function unindent.                 *)
(*                                                                         *)
(* A clean::Item is a record                                               *)
(*   def_id     : [krate, node]      (ast::DefId)                          *)
(*   visibility : "Public" | "Inherited" | "None"  (Option<Visibility>)    *)
(*   attrs      : sequence of attributes                                   *)
(*   inner      : the ItemEnum variant, e.g. "ModuleItem"                  *)
(*   sub        : the payload's own variant where the passes look at it    *)
(*                (TypedStructField / HiddenStructField, StructVariant)    *)
(*   for_       : the implementation's target type (ImplItem only)         *)
(*   trait_     : Option<Type>, the implemented trait (ImplItem only)      *)
(*   items      : the children the fold framework recurses into            *)
(* Option<T> is a sequence of length 0 (None) or 1 (Some).  A String is a  *)
(* sequence of one-character strings.                                      *)
(***************************************************************************)
EXTENDS Integers, Sequences, FiniteSets, TLC

VARIABLES pc, input, exported_items, krate, stripped, retained, results, text, out

vars == <<pc, input, exported_items, krate, stripped, retained, results, text, out>>

(***************************************************************************)
(* Bounds of the model.                                                    *)
(***************************************************************************)
MaxFields == 1

MaxMembers == 1

MaxRuns == 2

MaxAttrs == 3

MaxLen == 7

\* usize::MAX, the start value of the min_indent fold; the largest integer
\* TLC represents stands for 2^64 - 1 (no line is ever that long).
usize_MAX == 2147483647

None == << >>

Some(x) == << x >>

Range(f) == { f[k] : k \in DOMAIN f }

Min(a, b) == IF a <= b THEN a ELSE b

SeqsUpTo(S, n) == UNION { [1..k -> S] : k \in 0..n }

(***************************************************************************)
(* clean:: and ast_util:: helpers the passes call.                         *)
(***************************************************************************)
LOCAL_CRATE == "local"

is_local(did) == did.krate = LOCAL_CRATE

DocAttr(s) == [tag |-> "NameValue", name |-> "doc", value |-> s]

HiddenAttr == [tag |-> "List", name |-> "doc", value |-> <<"hidden">>]

WordAttr(w) == [tag |-> "Word", name |-> w, value |-> << >>]

\* Item::is_hidden_from_doc: some #[doc(...)] list holds the word hidden
is_hidden_from_doc(i) ==
    \E k \in DOMAIN i.attrs :
        /\ i.attrs[k].tag = "List"
        /\ i.attrs[k].name = "doc"
        /\ "hidden" \in Range(i.attrs[k].value)

\* Item::doc_value: the value of the first #[doc = "..."] attribute
IsDoc(a) == a.tag = "NameValue" /\ a.name = "doc"

doc_value(i) ==
    LET ks == { k \in DOMAIN i.attrs : IsDoc(i.attrs[k]) }
    IN IF ks = {} THEN None
       ELSE Some(i.attrs[CHOOSE k \in ks : \A j \in ks : k <= j].value)

is_trait(i) == i.inner = "TraitItem"

NoDefId == [krate |-> "none", node |-> 0]

NoType == [form |-> "none", did |-> NoDefId]

ResolvedPath(did) == [form |-> "ResolvedPath", did |-> did]

\* &T where T is a resolved path: clean::BorrowedRef{ type_: ResolvedPath }
BorrowedRef(did) == [form |-> "BorrowedRef", did |-> did]

(***************************************************************************)
(* fold::DocFolder.  self is the folder: its name selects the fold_item    *)
(* override, set is the HashSet it holds by reference.                     *)
(***************************************************************************)
RECURSIVE fold_item(_, _)
RECURSIVE fold_items(_, _)

\* items.into_iter().filter_map(|x| self.fold_item(x)).collect()
fold_items(self, items) ==
    IF items = << >> THEN [self |-> self, items |-> << >>]
    ELSE LET r    == fold_item(self, Head(items))
             rest == fold_items(r.self, Tail(items))
         IN [self |-> rest.self, items |-> r.item \o rest.items]

RecursedKinds == {"StructItem", "ModuleItem", "EnumItem", "TraitItem", "ImplItem"}

fold_item_recur(self, i) ==
    IF i.inner \in RecursedKinds \/ (i.inner = "VariantItem" /\ i.sub = "StructVariant")
    THEN LET r == fold_items(self, i.items)
         IN [self |-> r.self, item |-> Some([i EXCEPT !.items = r.items])]
    ELSE [self |-> self, item |-> Some(i)]

HiddenStructField(i) == [i EXCEPT !.sub = "HiddenStructField"]

\* a Stripper that keeps a field as placeholder only while it is still typed
strip_hidden_Stripper_fold_item_DropsPlaceholder(self, i) ==
    IF is_hidden_from_doc(i)
    THEN LET self2 == [self EXCEPT !.set = @ \cup {i.def_id.node}]
         IN IF i.inner = "StructFieldItem" /\ i.sub = "TypedStructField"
            THEN [self |-> self2, item |-> Some(HiddenStructField(i))]
            ELSE [self |-> self2, item |-> None]
    ELSE fold_item_recur(self, i)

\* strip_hidden's first folder
strip_hidden_Stripper_fold_item(self, i) ==
    IF is_hidden_from_doc(i)
    THEN LET self2 == [self EXCEPT !.set = @ \cup {i.def_id.node}]
         IN IF i.inner = "StructFieldItem"
            THEN [self |-> self2, item |-> Some(HiddenStructField(i))]
            ELSE [self |-> self2, item |-> None]
    ELSE fold_item_recur(self, i)

\* strip_hidden's second folder
strip_hidden_ImplStripper_fold_item(self, i) ==
    IF /\ i.inner = "ImplItem"
       /\ i.for_.form = "ResolvedPath"
       /\ \/ i.for_.did.node \in self.set
          \/ \E t \in Range(i.trait_) :
                t.form = "ResolvedPath" /\ t.did.node \in self.set
    THEN [self |-> self, item |-> None]
    ELSE fold_item_recur(self, i)

ReExportable == {"TypedefItem", "StaticItem", "StructItem", "EnumItem",
                 "TraitItem", "FunctionItem", "VariantItem", "MethodItem",
                 "ForeignFunctionItem", "ForeignStaticItem"}

\* the first match without the check of a trait's visibility
Stripper_strips_NoTraitVisibility(self, i) ==
    CASE i.inner \in ReExportable ->
            is_local(i.def_id) /\ i.def_id.node \notin self.exported_items
      [] i.inner = "ConstantItem" ->
            is_local(i.def_id) /\ i.def_id.node \notin self.exported_items
      [] i.inner \in {"ExternCrateItem", "ImportItem"} ->
            i.visibility # "Public"
      [] i.inner = "ImplItem" /\ i.for_.form = "ResolvedPath" ->
            is_local(i.for_.did) /\ i.for_.did.node \notin self.exported_items
      [] OTHER -> FALSE

\* the first match of Stripper::fold_item: the arms that return None
Stripper_strips(self, i) ==
    CASE i.inner \in ReExportable ->
            /\ is_local(i.def_id)
            /\ \/ i.def_id.node \notin self.exported_items
               \/ (is_trait(i) /\ i.visibility # "Public")
      [] i.inner = "ConstantItem" ->
            is_local(i.def_id) /\ i.def_id.node \notin self.exported_items
      [] i.inner \in {"ExternCrateItem", "ImportItem"} ->
            i.visibility # "Public"
      [] i.inner = "ImplItem" /\ i.for_.form = "ResolvedPath" ->
            is_local(i.for_.did) /\ i.for_.did.node \notin self.exported_items
      [] OTHER -> FALSE

fastreturn(i) ==
    \/ i.inner = "TraitItem"
    \/ (i.inner = "ImplItem" /\ i.trait_ # None)
    \/ (i.inner = "VariantItem" /\ i.sub = "StructVariant")

\* strip_private's first folder
Stripper_fold_item(self, i) ==
    IF Stripper_strips(self, i) THEN [self |-> self, item |-> None]
    ELSE IF i.inner = "StructFieldItem" /\ i.visibility # "Public"
    THEN [self |-> self, item |-> Some(HiddenStructField(i))]
    ELSE IF fastreturn(i)
    THEN [self |-> [self EXCEPT !.set = @ \cup {i.def_id.node}], item |-> Some(i)]
    ELSE LET r == fold_item_recur(self, i)
             j == r.item[1]
         IN IF r.item = None THEN r
            ELSE IF \/ (j.inner = "ModuleItem" /\ j.items = << >> /\ doc_value(j) = None)
                    \/ (j.inner = "ImplItem" /\ j.items = << >>)
            THEN [self |-> r.self, item |-> None]
            ELSE [self |-> [r.self EXCEPT !.set = @ \cup {j.def_id.node}],
                  item |-> Some(j)]

\* strip_private's second folder
ImplStripper_fold_item(self, i) ==
    IF /\ i.inner = "ImplItem"
       /\ \E t \in Range(i.trait_) :
             /\ t.form = "ResolvedPath"
             /\ is_local(t.did)
             /\ t.did.node \notin self.set
    THEN [self |-> self, item |-> None]
    ELSE fold_item_recur(self, i)

\* the doc attributes of an item, and the others, each in their order
DocFragments(attrs) == SelectSeq(attrs, IsDoc)

NotDoc(a) == ~IsDoc(a)

RECURSIVE push_docs(_)
\* for each doc attribute: docstr.push_str(s); docstr.push('\n')
push_docs(frags) ==
    IF frags = << >> THEN << >>
    ELSE Head(frags).value \o <<"\n">> \o push_docs(Tail(frags))

\* collapse_docs's folder
Collapser_fold_item(self, i) ==
    LET docstr == push_docs(DocFragments(i.attrs))
        a      == SelectSeq(i.attrs, NotDoc)
        a2     == IF docstr # << >> THEN Append(a, DocAttr(docstr)) ELSE a
    IN fold_item_recur(self, [i EXCEPT !.attrs = a2])

fold_item(self, i) ==
    CASE self.folder = "strip_hidden::Stripper" -> strip_hidden_Stripper_fold_item(self, i)
      [] self.folder = "strip_hidden::ImplStripper" -> strip_hidden_ImplStripper_fold_item(self, i)
      [] self.folder = "Stripper" -> Stripper_fold_item(self, i)
      [] self.folder = "ImplStripper" -> ImplStripper_fold_item(self, i)
      [] self.folder = "Collapser" -> Collapser_fold_item(self, i)

\* c.module = match c.module { Some(module) => self.fold_item(module), None => None }
fold_crate(self, c) ==
    IF c = None THEN [self |-> self, item |-> None]
    ELSE fold_item(self, c[1])

Folder(name, set, exported) == [folder |-> name, set |-> set, exported_items |-> exported]

(***************************************************************************)
(* Input trees.  The crate's root module (node 0) holds a module (node 1), *)
(* a struct (node 2) with its fields (nodes 11..), a trait (node 3) with   *)
(* one required method, and an implementation (node 4) with its methods    *)
(* (nodes 21..).  The struct and the trait sit in the root or in the       *)
(* module; the implementation is the first or last item of the root, or    *)
(* the last item of the module.                                            *)
(***************************************************************************)
Local(n) == [krate |-> LOCAL_CRATE, node |-> n]

Extern(n) == [krate |-> "extern", node |-> n]

Item(node, inner, vis, attrs, sub, for_, trait_, items) ==
    [def_id |-> Local(node), visibility |-> vis, attrs |-> attrs, inner |-> inner,
     sub |-> sub, for_ |-> for_, trait_ |-> trait_, items |-> items]

Leaf(node, inner, vis, attrs, sub) == Item(node, inner, vis, attrs, sub, NoType, None, << >>)

BuildCrate(p) ==
    LET S == Item(2, "StructItem", "Public", p.sAttrs, "", NoType, None, p.fields)
        T == Item(3, "TraitItem", p.tVis, p.tAttrs, "", NoType, None,
                  << Leaf(30, "TyMethodItem", "None", << >>, "") >>)
        I == Item(4, "ImplItem", "None", << >>, "", p.for_, p.trait_, p.members)
        M == Item(1, "ModuleItem", "Public", p.mAttrs, "", NoType, None,
                  (IF p.sLoc = "mod" THEN << S >> ELSE << >>)
                  \o (IF p.tLoc = "mod" THEN << T >> ELSE << >>)
                  \o (IF p.iLoc = "mod" THEN << I >> ELSE << >>))
    IN Item(0, "ModuleItem", "Public", << >>, "", NoType, None,
            (IF p.iLoc = "first" THEN << I >> ELSE << >>)
            \o << M >>
            \o (IF p.sLoc = "root" THEN << S >> ELSE << >>)
            \o (IF p.tLoc = "root" THEN << T >> ELSE << >>)
            \o (IF p.iLoc = "last" THEN << I >> ELSE << >>))

\* the fields of the struct: field k is node 10 + k
Fields(flavours) ==
    { [k \in DOMAIN f |-> Leaf(10 + k, "StructFieldItem", f[k].vis, f[k].attrs, "TypedStructField")] :
        f \in SeqsUpTo(flavours, MaxFields) }

\* the methods of the implementation: method k is node 20 + k
Members == { [k \in 1..n |-> Leaf(20 + k, "MethodItem", "Inherited", << >>, "")] : n \in 0..MaxMembers }

MaybeHidden == { << >>, << HiddenAttr >> }

\* the target of the implementation: the struct, the trait (as an object
\* type), a reference to the struct, or a type of another crate whose node
\* number is the struct's or no local item's
Targets == { ResolvedPath(Local(2)), ResolvedPath(Local(3)), BorrowedRef(Local(2)),
             ResolvedPath(Extern(2)), ResolvedPath(Extern(7)) }

Traits == { None, Some(ResolvedPath(Local(3))), Some(ResolvedPath(Extern(3))) }

HiddenParams ==
    [sLoc : {"root", "mod"}, tLoc : {"root", "mod"}, iLoc : {"first", "last", "mod"},
     sAttrs : MaybeHidden, tAttrs : MaybeHidden, mAttrs : MaybeHidden, tVis : {"Public"},
     fields : Fields([vis : {"Public"}, attrs : MaybeHidden]),
     for_ : Targets, trait_ : Traits, members : Members]

(***************************************************************************)
(* strip_hidden, run MaxRuns times in succession on its own output.        *)
(***************************************************************************)
InitHidden ==
    /\ \E p \in HiddenParams : input = Some(BuildCrate(p))
    /\ krate = input
    /\ pc = "start"
    /\ exported_items = {}
    /\ stripped = {}
    /\ retained = {}
    /\ results = << >>
    /\ text = << >>
    /\ out = None

\* lines 27-59: a fresh set, then the Stripper folds the crate
StripHidden_Stripper ==
    /\ pc \in {"start", "hidden_done"}
    /\ Len(results) < MaxRuns
    /\ LET r == fold_crate(Folder("strip_hidden::Stripper", {}, {}), krate)
       IN /\ krate' = r.item
          /\ stripped' = r.self.set
    /\ pc' = "hidden_stripped"
    /\ UNCHANGED <<input, exported_items, retained, results, text, out>>

\* lines 62-90: the ImplStripper folds the stripped crate
StripHidden_ImplStripper ==
    /\ pc = "hidden_stripped"
    /\ LET r == fold_crate(Folder("strip_hidden::ImplStripper", stripped, {}), krate)
       IN /\ krate' = r.item
          /\ results' = Append(results, r.item)
    /\ pc' = "hidden_done"
    /\ UNCHANGED <<input, exported_items, stripped, retained, text, out>>

NextHidden == StripHidden_Stripper \/ StripHidden_ImplStripper

SpecHidden == InitHidden /\ [][NextHidden]_vars

(***************************************************************************)
(* Reading a tree.                                                         *)
(***************************************************************************)
RECURSIVE Subtree(_)
Subtree(i) == {i} \cup UNION { Subtree(i.items[k]) : k \in DOMAIN i.items }

AllItems(c) == IF c = None THEN {} ELSE Subtree(c[1])

LocalNodes(c) == { n.def_id.node : n \in { m \in AllItems(c) : is_local(m.def_id) } }

Impls(c) == { n \in AllItems(c) : n.inner = "ImplItem" }

\* the types an implementation refers to: its target and its trait
RefersTo(imp) == {imp.for_} \cup Range(imp.trait_)

\* the locally defined items a pass took out of its input
RemovedLocal(before, after) == LocalNodes(before) \ LocalNodes(after)

Dangling(imp, before, after) ==
    \E ty \in RefersTo(imp) : is_local(ty.did) /\ ty.did.node \in RemovedLocal(before, after)

\* C1: after strip_hidden no surviving implementation has a target or a
\* trait that is a local item strip_hidden removed, whatever the form of
\* the target and wherever the implementation sits.
C1_NoImplOfRemovedAfterStripHidden ==
    pc = "hidden_done" => \A imp \in Impls(krate) : ~Dangling(imp, input, krate)

\* C5: every later run of strip_hidden returns the tree the first run
\* returned.
C5_StripHiddenIdempotent ==
    \A k \in DOMAIN results : results[k] = results[1]

C5_Witness ==
    /\ Len(results) >= 2
    /\ results[1] # input
    /\ \E n \in AllItems(results[2]) : n.sub = "HiddenStructField"
    /\ \E imp \in Range(input[1].items) : imp.inner = "ImplItem"
    /\ Impls(results[1]) = {}

\* C9: the ImplStripper step of strip_hidden deletes an implementation only
\* when its target or its trait is a local item whose node is in stripped,
\* and deletes nothing else (but the members of a deleted implementation).
DeletedBy(before, after) ==
    { n \in AllItems(before) : n.def_id \notin { m.def_id : m \in AllItems(after) } }

C9_ImplStripperDeletesOnlyLocalStripped ==
    [][(pc = "hidden_stripped" /\ pc' = "hidden_done") =>
        LET gone == DeletedBy(krate, krate')
        IN \A n \in gone :
            \/ /\ n.inner = "ImplItem"
               /\ \E ty \in RefersTo(n) : is_local(ty.did) /\ ty.did.node \in stripped
            \/ \E imp \in gone : imp.inner = "ImplItem" /\ n \in Range(imp.items)]_vars

(***************************************************************************)
(* strip_private on a tree and an export set (analysis.exported_items).    *)
(***************************************************************************)
MaybeDoc == { << >>, << DocAttr(<<"d">>) >> }

ExportCandidates == {2, 3} \cup { 20 + k : k \in 1..MaxMembers }

PrivateParams ==
    [sLoc : {"root", "mod"}, tLoc : {"root", "mod"}, iLoc : {"first", "last", "mod"},
     sAttrs : {<< >>}, tAttrs : {<< >>}, mAttrs : MaybeDoc, tVis : {"Public", "Inherited"},
     fields : Fields([vis : {"Public", "Inherited"}, attrs : {<< >>}]),
     for_ : Targets, trait_ : Traits, members : Members]

InitPrivate ==
    /\ \E p \in PrivateParams : input = Some(BuildCrate(p))
    /\ exported_items \in SUBSET ExportCandidates
    /\ krate = input
    /\ pc = "start"
    /\ stripped = {}
    /\ retained = {}
    /\ results = << >>
    /\ text = << >>
    /\ out = None

\* lines 97-110: phase 1, the Stripper collects the retained nodes
StripPrivate_Stripper ==
    /\ pc = "start"
    /\ LET r == fold_crate(Folder("Stripper", {}, exported_items), krate)
       IN /\ krate' = r.item
          /\ retained' = r.self.set
    /\ pc' = "private_stripped"
    /\ UNCHANGED <<input, exported_items, stripped, results, text, out>>

\* lines 113-117: phase 2, the ImplStripper reads the retained nodes
StripPrivate_ImplStripper ==
    /\ pc = "private_stripped"
    /\ LET r == fold_crate(Folder("ImplStripper", retained, exported_items), krate)
       IN /\ krate' = r.item
          /\ results' = Append(results, r.item)
    /\ pc' = "private_done"
    /\ UNCHANGED <<input, exported_items, stripped, retained, text, out>>

NextPrivate == StripPrivate_Stripper \/ StripPrivate_ImplStripper

SpecPrivate == InitPrivate /\ [][NextPrivate]_vars

\* C2: after strip_private no surviving implementation has a target or a
\* trait that is a local item strip_private removed.
C2_NoImplOfRemovedAfterStripPrivate ==
    pc = "private_done" => \A imp \in Impls(krate) : ~Dangling(imp, input, krate)

\* C3: after strip_private no surviving module is empty and undocumented,
\* and no surviving implementation (with or without a trait) has no member.
EmptyModule(n) == n.inner = "ModuleItem" /\ n.items = << >> /\ doc_value(n) = None

EmptyImpl(n) == n.inner = "ImplItem" /\ n.items = << >>

C3_NoEmptyModuleOrImplAfterStripPrivate ==
    pc = "private_done" => \A n \in AllItems(krate) : ~EmptyModule(n) /\ ~EmptyImpl(n)

LocalTraits(c) == { n \in AllItems(c) : is_trait(n) /\ is_local(n.def_id) }

\* C4 as stated: strip_private retains a local trait whose node is in the
\* export set even when it is not explicitly public.
C4_ExportedTraitRetained ==
    pc = "private_done" =>
        \A t \in LocalTraits(input) :
            t.def_id.node \in exported_items => t.def_id.node \in LocalNodes(krate)

\* C4 as amended: strip_private retains a local trait exactly when its node
\* is in the export set and its visibility is explicitly public.
C4_TraitRetainedIffExportedAndPublic ==
    pc = "private_done" =>
        \A t \in LocalTraits(input) :
            t.def_id.node \in LocalNodes(krate)
                <=> (t.def_id.node \in exported_items /\ t.visibility = "Public")

C4_Witness ==
    /\ pc = "private_done"
    /\ \E t \in LocalTraits(input) :
          /\ t.def_id.node \in exported_items
          /\ t.visibility # "Public"
          /\ t.def_id.node \notin LocalNodes(krate)
          /\ 2 \in LocalNodes(krate)

(***************************************************************************)
(* collapse_docs on a module and a function in it.                         *)
(***************************************************************************)
AttrPool == { DocAttr(<<"a">>), DocAttr(<<"b">>), DocAttr(<< >>), WordAttr("inline"),
              [tag |-> "NameValue", name |-> "cfg", value |-> <<"a">>] }

RootAttrs == { << >>, << DocAttr(<<"a">>) >>,
               << WordAttr("inline"), DocAttr(<<"b">>), DocAttr(<<"a">>) >> }

InitCollapse ==
    /\ \E ra \in RootAttrs, ca \in SeqsUpTo(AttrPool, MaxAttrs) :
          input = Some(Item(0, "ModuleItem", "Public", ra, "", NoType, None,
                            << Leaf(5, "FunctionItem", "Public", ca, "") >>))
    /\ krate = input
    /\ pc = "start"
    /\ exported_items = {}
    /\ stripped = {}
    /\ retained = {}
    /\ results = << >>
    /\ text = << >>
    /\ out = None

\* lines 278-308
CollapseDocs ==
    /\ pc = "start"
    /\ LET r == fold_crate(Folder("Collapser", {}, {}), krate)
       IN /\ krate' = r.item
          /\ results' = Append(results, r.item)
    /\ pc' = "collapse_done"
    /\ UNCHANGED <<input, exported_items, stripped, retained, text, out>>

NextCollapse == CollapseDocs

SpecCollapse == InitCollapse /\ [][NextCollapse]_vars

RECURSIVE Join(_, _)
\* the strings of ss with sep between consecutive ones
Join(ss, sep) ==
    IF ss = << >> THEN << >>
    ELSE IF Len(ss) = 1 THEN ss[1]
    ELSE ss[1] \o sep \o Join(Tail(ss), sep)

Values(attrs) == [k \in DOMAIN attrs |-> attrs[k].value]

\* C6: collapse_docs leaves on every item with doc fragments exactly one doc
\* attribute, its value the fragments in order with one line break between
\* consecutive fragments and nothing after the last; the other attributes
\* keep their order; an item without doc fragment gets no doc attribute.
C6_CollapseJoinsFragments ==
    pc = "collapse_done" =>
        \A n \in AllItems(input) :
            \E m \in AllItems(krate) :
                /\ m.def_id = n.def_id
                /\ SelectSeq(m.attrs, NotDoc) = SelectSeq(n.attrs, NotDoc)
                /\ IF DocFragments(n.attrs) = << >>
                   THEN DocFragments(m.attrs) = << >>
                   ELSE Values(DocFragments(m.attrs))
                            = << Join(Values(DocFragments(n.attrs)), <<"\n">>) >>

(***************************************************************************)
(* unindent.  A text is a sequence of characters over Alphabet: a space, a *)
(* whitespace character that is not a space, a letter, and a line break.   *)
(***************************************************************************)
Alphabet == {" ", "\r", "x", "\n"}

\* char::is_whitespace
is_whitespace(c) == c \in {" ", "\r", "\n", "\t"}

\* line.chars().all(|c| c.is_whitespace())
all_whitespace(line) == \A k \in DOMAIN line : is_whitespace(line[k])

RECURSIVE split(_, _)
\* s.split('\n'): cur is the piece read so far
split(s, cur) ==
    IF s = << >> THEN << cur >>
    ELSE IF Head(s) = "\n" THEN << cur >> \o split(Tail(s), << >>)
    ELSE split(Tail(s), Append(cur, Head(s)))

\* str::lines_any: the pieces between line breaks, without a last empty
\* piece, each without one trailing carriage return
lines_any(s) ==
    LET pieces == split(s, << >>)
        n      == Len(pieces)
        ls     == IF pieces[n] = << >> THEN SubSeq(pieces, 1, n - 1) ELSE pieces
    IN [k \in DOMAIN ls |->
           IF ls[k] # << >> /\ ls[k][Len(ls[k])] = "\r"
           THEN SubSeq(ls[k], 1, Len(ls[k]) - 1) ELSE ls[k]]

RECURSIVE trim_left(_)
trim_left(line) ==
    IF line # << >> /\ is_whitespace(Head(line)) THEN trim_left(Tail(line)) ELSE line

RECURSIVE trim_right(_)
trim_right(line) ==
    IF line # << >> /\ is_whitespace(line[Len(line)])
    THEN trim_right(SubSeq(line, 1, Len(line) - 1)) ELSE line

\* str::trim
trim(line) == trim_right(trim_left(line))

RECURSIVE count_spaces(_)
\* lines 339-349: the characters before the first one that is not a space
count_spaces(line) ==
    IF line # << >> /\ Head(line) = " " THEN 1 + count_spaces(Tail(line)) ELSE 0

\* a fold step that forgets saw_second_line: every content line after the
\* first one resets the minimum
fold_line_NoSecondLine(st, line) ==
    LET ignore_previous_indents == st.saw_first_line /\ ~all_whitespace(line)
        min_indent == IF ignore_previous_indents THEN usize_MAX ELSE st.min_indent
        second == st.saw_second_line \/ st.saw_first_line
    IN IF all_whitespace(line)
       THEN [min_indent |-> min_indent, saw_first_line |-> st.saw_first_line,
             saw_second_line |-> second]
       ELSE [min_indent |-> Min(min_indent, count_spaces(line)), saw_first_line |-> TRUE,
             saw_second_line |-> second]

\* lines 314-352: one step of the fold; st holds min_indent and the two
\* flags the closure captures
fold_line(st, line) ==
    LET ignore_previous_indents ==
            st.saw_first_line /\ ~st.saw_second_line /\ ~all_whitespace(line)
        min_indent == IF ignore_previous_indents THEN usize_MAX ELSE st.min_indent
        second == st.saw_second_line \/ st.saw_first_line
    IN IF all_whitespace(line)
       THEN [min_indent |-> min_indent, saw_first_line |-> st.saw_first_line,
             saw_second_line |-> second]
       ELSE [min_indent |-> Min(min_indent, count_spaces(line)), saw_first_line |-> TRUE,
             saw_second_line |-> second]

RECURSIVE fold_lines(_, _)
fold_lines(st, lines) ==
    IF lines = << >> THEN st ELSE fold_lines(fold_line(st, Head(lines)), Tail(lines))

min_indent_of(lines) ==
    fold_lines([min_indent |-> usize_MAX, saw_first_line |-> FALSE,
                saw_second_line |-> FALSE], lines).min_indent

\* a slice without the assertion: a short line comes out empty
unindent_line_NoAssert(line, min_indent) ==
    IF all_whitespace(line) THEN [panic |-> FALSE, value |-> line]
    ELSE [panic |-> FALSE, value |-> SubSeq(line, min_indent + 1, Len(line))]

\* lines 357-362: what a line after the first becomes; panic is the failed
\* assert!(line.len() >= min_indent)
unindent_line(line, min_indent) ==
    IF all_whitespace(line) THEN [panic |-> FALSE, value |-> line]
    ELSE IF Len(line) >= min_indent
    THEN [panic |-> FALSE, value |-> SubSeq(line, min_indent + 1, Len(line))]
    ELSE [panic |-> TRUE, value |-> << >>]

\* lines 310-368
unindent(s) ==
    LET lines      == lines_any(s)
        min_indent == min_indent_of(lines)
        rest       == [k \in 1..(Len(lines) - 1) |-> unindent_line(lines[k + 1], min_indent)]
    IN IF lines # << >>
       THEN IF \E k \in DOMAIN rest : rest[k].panic
            THEN [panic |-> TRUE, value |-> << >>]
            ELSE [panic |-> FALSE,
                  value |-> Join(<< trim(lines[1]) >> \o [k \in DOMAIN rest |-> rest[k].value],
                                 <<"\n">>)]
       ELSE [panic |-> FALSE, value |-> s]

InitUnindent ==
    /\ text \in SeqsUpTo(Alphabet, MaxLen)
    /\ out = None
    /\ pc = "start"
    /\ input = None
    /\ krate = None
    /\ exported_items = {}
    /\ stripped = {}
    /\ retained = {}
    /\ results = << >>

\* a call of unindent: it returns a String or the assertion fails
Unindent ==
    /\ pc = "start"
    /\ LET r == unindent(text)
       IN IF r.panic
          THEN pc' = "aborted" /\ out' = out
          ELSE pc' = "unindent_done" /\ out' = Some(r.value)
    /\ UNCHANGED <<input, exported_items, krate, stripped, retained, results, text>>

NextUnindent == Unindent

SpecUnindent == InitUnindent /\ [][NextUnindent]_vars

(***************************************************************************)
(* What the text says, read off its lines.                                 *)
(***************************************************************************)
Lines == lines_any(text)

Content == { k \in DOMAIN Lines : ~all_whitespace(Lines[k]) }

FirstContent == CHOOSE k \in Content : \A j \in Content : k <= j

\* the content lines whose leading spaces count: all of them, but the first
\* one when the line right after it is a content line too
Counted ==
    IF Content # {} /\ (FirstContent + 1) \in Content
    THEN Content \ {FirstContent} ELSE Content

LeastIndent ==
    LET ns == { count_spaces(Lines[k]) : k \in Counted }
    IN CHOOSE m \in ns : \A n \in ns : m <= n

Expected ==
    [k \in DOMAIN Lines |->
        IF k = 1 THEN trim(Lines[1])
        ELSE IF k \in Content THEN SubSeq(Lines[k], LeastIndent + 1, Len(Lines[k]))
        ELSE Lines[k]]

\* C7: when unindent returns, the result is the lines rejoined, the first
\* trimmed, later blank lines unchanged, later content lines without their
\* first m characters, m the least leading-space count over the content
\* lines, the first content line left out exactly when the next line is a
\* content line.
C7_UnindentResult ==
    pc = "unindent_done" => out = Some(Join(Expected, <<"\n">>))

C7_Witness ==
    /\ pc = "unindent_done"
    /\ Content # {} /\ (FirstContent + 1) \in Content
    /\ count_spaces(Lines[FirstContent]) < LeastIndent
    /\ out # Some(text)

\* C8: when a content line after the first is shorter than the minimum
\* indentation unindent computed, unindent aborts and returns nothing.
C8_ShortLineAborts ==
    (pc # "start" /\ \E k \in Content : k > 1 /\ Len(Lines[k]) < min_indent_of(Lines))
        => (pc = "aborted" /\ out = None)

C8_Witness ==
    /\ pc = "aborted"
    /\ \E k \in Content : k > 1 /\ Len(Lines[k]) < min_indent_of(Lines)

\* C10: when unindent returns, each line after the first is the input line
\* without a prefix that holds only spaces.
OutLines == split(out[1], << >>)

C10_OnlySpacesRemoved ==
    (pc = "unindent_done" /\ Lines # << >>) =>
        /\ Len(OutLines) = Len(Lines)
        /\ \A k \in 2..Len(Lines) :
              \E j \in 0..Len(Lines[k]) :
                  /\ OutLines[k] = SubSeq(Lines[k], j + 1, Len(Lines[k]))
                  /\ \A t \in 1..j : Lines[k][t] = " "

====
